---- MODULE Spec2Model ----
(***************************************************************************)
(* The dual-provider currency analysis of backend/server.py: the two       *)
(* provider adapters, the asyncio.gather fan-out of analyze_currency, the  *)
(* result combiner, and the analysis collection with its single-record     *)
(* lookup.                                                                 *)
(*                                                                         *)
(* Python values are tagged records (PyNone, PyBool, PyInt, PyStr, PyList, *)
(* PyDict).  A str is a sequence of lexemes (TLA+ strings whose            *)
(* concatenation is the text), so that json.loads can be modelled as a     *)
(* parser over the text a provider returned.                               *)
(***************************************************************************)
EXTENDS Integers, Sequences, FiniteSets, TLC

VARIABLES
    pc,        \* analyze_currency: "idle", "gather" (awaiting asyncio.gather), "done" (returning)
    request,   \* the upload being handled: user, content_type, filename
    task,      \* per provider, the adapter coroutine: its status, what the provider did, its result
    order,     \* the providers in the order their adapter calls completed
    store,     \* analysis_collection: the documents in insertion order
    response,  \* the HTTP response of analyze_currency
    uploads,   \* number of uploads received so far
    clock,     \* datetime.utcnow()
    lastGet    \* the last get_analysis or get_user_analyses call and its response

vars == <<pc, request, task, order, store, response, uploads, clock, lastGet>>

(***************************************************************************)
(* Bounds of the model.                                                    *)
(***************************************************************************)
\* Longest currencies_detected list a provider answers with.
MaxDetections == 2
\* Number of uploads handled in one behaviour.
MaxUploads == 1
\* Largest number of records the collection holds when a behaviour of
\* SpecList begins.
MaxRecords == 16

(***************************************************************************)
(* Python values.                                                          *)
(***************************************************************************)
PyNone == [tag |-> "none"]
PyBool(b) == [tag |-> "bool", b |-> b]
PyInt(n) == [tag |-> "int", n |-> n]
PyStr(s) == [tag |-> "str", s |-> s]
PyList(items) == [tag |-> "list", items |-> items]
PyDict(fields) == [tag |-> "dict", fields |-> fields]

EmptyFields == [k \in {} |-> PyNone]

\* d[key] = v on a dict's fields: a repeated key keeps the last value.
SetField(fields, key, v) ==
    [k \in DOMAIN fields \cup {key} |-> IF k = key THEN v ELSE fields[k]]

\* Outcome of evaluating a Python expression: a value, or an exception.
Returned(v) == [raised |-> FALSE, value |-> v]
Raised(e) == [raised |-> TRUE, exc |-> e]

\* The name Python prints for a value's type.
TypeName(v) ==
    CASE v.tag = "none" -> "NoneType"
      [] v.tag = "bool" -> "bool"
      [] v.tag = "int" -> "int"
      [] v.tag = "str" -> "str"
      [] v.tag = "list" -> "list"
      [] v.tag = "dict" -> "dict"

\* bool(v): None, False, 0 and empty containers are falsy.
Truthy(v) ==
    CASE v.tag = "none" -> FALSE
      [] v.tag = "bool" -> v.b
      [] v.tag = "int" -> v.n # 0
      [] v.tag = "str" -> v.s # <<>>
      [] v.tag = "list" -> v.items # <<>>
      [] v.tag = "dict" -> DOMAIN v.fields # {}

\* len(v): defined on str, list and dict; a TypeError on the rest.  The
\* length of a str is counted in lexemes, the granularity of the model.
PyLen(v) ==
    CASE v.tag = "str" -> Returned(Len(v.s))
      [] v.tag = "list" -> Returned(Len(v.items))
      [] v.tag = "dict" -> Returned(Cardinality(DOMAIN v.fields))
      [] OTHER -> Raised("TypeError: object of type '" \o TypeName(v) \o "' has no len()")

\* v.get(key, default): only a dict has the method.
PyGet(v, key, default) ==
    IF v.tag = "dict"
    THEN Returned(IF key \in DOMAIN v.fields THEN v.fields[key] ELSE default)
    ELSE Raised("AttributeError: '" \o TypeName(v) \o "' object has no attribute 'get'")

(***************************************************************************)
(* json.loads: a recursive-descent parser over the lexemes of a text.      *)
(* A string literal is the three lexemes quote, content, quote (or quote,  *)
(* quote when empty).                                                      *)
(***************************************************************************)
Quote == "\""

NumberLexemes == ("0" :> 0) @@ ("1" :> 1) @@ ("2" :> 2) @@ ("5" :> 5) @@ ("7" :> 7)

ParseFail == [ok |-> FALSE, val |-> PyNone, next |-> 0]
ParseOk(v, n) == [ok |-> TRUE, val |-> v, next |-> n]

\* A string literal starting at lexeme i.
ParseString(t, i) ==
    IF i + 1 <= Len(t) /\ t[i + 1] = Quote
    THEN ParseOk(PyStr(<<>>), i + 2)
    ELSE IF i + 2 <= Len(t) /\ t[i + 2] = Quote
         THEN ParseOk(PyStr(<<t[i + 1]>>), i + 3)
         ELSE ParseFail

RECURSIVE ParseValue(_, _), ParseElements(_, _, _), ParseMembers(_, _, _)

\* The JSON value starting at lexeme i.
ParseValue(t, i) ==
    IF i > Len(t) THEN ParseFail
    ELSE CASE t[i] = "null" -> ParseOk(PyNone, i + 1)
           [] t[i] = "true" -> ParseOk(PyBool(TRUE), i + 1)
           [] t[i] = "false" -> ParseOk(PyBool(FALSE), i + 1)
           [] t[i] \in DOMAIN NumberLexemes -> ParseOk(PyInt(NumberLexemes[t[i]]), i + 1)
           [] t[i] = Quote -> ParseString(t, i)
           [] t[i] = "[" ->
                IF i + 1 <= Len(t) /\ t[i + 1] = "]"
                THEN ParseOk(PyList(<<>>), i + 2)
                ELSE ParseElements(t, i + 1, <<>>)
           [] t[i] = "{" ->
                IF i + 1 <= Len(t) /\ t[i + 1] = "}"
                THEN ParseOk(PyDict(EmptyFields), i + 2)
                ELSE ParseMembers(t, i + 1, EmptyFields)
           [] OTHER -> ParseFail

\* The elements of an array from lexeme i on, acc being those read so far.
ParseElements(t, i, acc) ==
    LET e == ParseValue(t, i) IN
    IF ~e.ok \/ e.next > Len(t) THEN ParseFail
    ELSE CASE t[e.next] = "," -> ParseElements(t, e.next + 1, Append(acc, e.val))
           [] t[e.next] = "]" -> ParseOk(PyList(Append(acc, e.val)), e.next + 1)
           [] OTHER -> ParseFail

\* The members of an object from lexeme i on, acc being those read so far.
ParseMembers(t, i, acc) ==
    IF i > Len(t) \/ t[i] # Quote THEN ParseFail
    ELSE LET k == ParseString(t, i) IN
         IF ~k.ok \/ k.next > Len(t) \/ t[k.next] # ":" THEN ParseFail
         ELSE LET key == IF k.val.s = <<>> THEN "" ELSE k.val.s[1]
                  m == ParseValue(t, k.next + 1)
              IN IF ~m.ok \/ m.next > Len(t) THEN ParseFail
                 ELSE CASE t[m.next] = "," ->
                             ParseMembers(t, m.next + 1, SetField(acc, key, m.val))
                        [] t[m.next] = "}" ->
                             ParseOk(PyDict(SetField(acc, key, m.val)), m.next + 1)
                        [] OTHER -> ParseFail

\* json.loads(text): one JSON value and nothing after it, else a decode error.
JsonLoads(text) ==
    LET r == ParseValue(text, 1) IN
    IF r.ok /\ r.next = Len(text) + 1
    THEN Returned(r.val)
    ELSE Raised("JSONDecodeError")

(***************************************************************************)
(* The texts a provider may answer with.                                   *)
(***************************************************************************)
Providers == {"openai", "gemini"}

\* The provider name each adapter writes into its own results and asks the
\* provider to put in its answer.
ProviderName(p) ==
    IF p = "openai" THEN "OpenAI GPT-4o-mini" ELSE "Google Gemini 2.0 Flash"

\* The lexemes of the string literal "s".
Lit(s) == <<Quote, s, Quote>>

\* One entry of currencies_detected, as the prompt asks for it.
DetectionText ==
    <<"{">> \o Lit("currency_type") \o <<":">> \o Lit("USD") \o <<",">>
            \o Lit("denomination") \o <<":">> \o Lit("20") \o <<",">>
            \o Lit("quantity") \o <<":", "1", ",">>
            \o Lit("confidence") \o <<":">> \o Lit("high") \o <<"}">>

RECURSIVE DetectionsText(_)
\* n comma-separated entries.
DetectionsText(n) ==
    IF n = 0 THEN <<>>
    ELSE IF n = 1 THEN DetectionText
    ELSE DetectionsText(n - 1) \o <<",">> \o DetectionText

\* The answer the prompt asks for, with n detections.
StructuredText(p, n) ==
    <<"{">> \o Lit("currencies_detected") \o <<":", "[">> \o DetectionsText(n)
            \o <<"]", ",">> \o Lit("provider") \o <<":">> \o Lit(ProviderName(p))
            \o <<"}">>

\* Plain prose.
ProseText == <<"I", "cannot", "identify", "any", "currency">>
\* An answer cut off in the middle.
TruncatedText == <<"{">> \o Lit("currencies_detected") \o <<":", "[">>
\* Valid JSON that is no object.
NullText == <<"null">>
ArrayText == <<"[">> \o DetectionText \o <<"]">>
NumberText == <<"7">>
StringText == Lit("USD")
\* Valid JSON objects that are not what the prompt asks for.
EmptyObjectText == <<"{", "}">>
CountText(p) ==
    <<"{">> \o Lit("currencies_detected") \o <<":", "5", ",">>
            \o Lit("provider") \o <<":">> \o Lit(ProviderName(p)) \o <<"}">>

ResponseTexts(p) ==
    {ProseText, TruncatedText, NullText, ArrayText, NumberText, StringText,
     EmptyObjectText, CountText(p)}
        \cup {StructuredText(p, n) : n \in 0..MaxDetections}

\* What one provider call does: it raises, or it returns a text.
ProviderOutcomes(p) ==
    {[kind |-> "raise", msg |-> <<"Connection error">>]}
        \cup {[kind |-> "text", text |-> t] : t \in ResponseTexts(p)}

(***************************************************************************)
(* The provider adapters.  The argument is what chat.send_message does;    *)
(* the result is what the coroutine returns or raises.                     *)
(***************************************************************************)
\* analyze_with_openai without its outer `except Exception`: the
\* exception of the provider call leaves the coroutine.
analyze_with_openai_NoCatch(outcome) ==
    IF outcome.kind = "raise"
    THEN Raised("Exception: " \o outcome.msg[1])
    ELSE LET parsed == JsonLoads(outcome.text) IN
         IF parsed.raised
         THEN Returned(PyDict([raw_response |-> PyStr(outcome.text),
                               provider |-> PyStr(<<"OpenAI GPT-4o-mini">>)]))
         ELSE Returned(parsed.value)

analyze_with_openai(outcome) ==
    IF outcome.kind = "raise"
    THEN Returned(PyDict([error |-> PyStr(outcome.msg),
                          provider |-> PyStr(<<"OpenAI GPT-4o-mini">>)]))
    ELSE LET parsed == JsonLoads(outcome.text) IN
         IF parsed.raised
         THEN Returned(PyDict([raw_response |-> PyStr(outcome.text),
                               provider |-> PyStr(<<"OpenAI GPT-4o-mini">>)]))
         ELSE Returned(parsed.value)

\* analyze_with_gemini without its outer `except Exception`.
analyze_with_gemini_NoCatch(outcome) ==
    IF outcome.kind = "raise"
    THEN Raised("Exception: " \o outcome.msg[1])
    ELSE LET parsed == JsonLoads(outcome.text) IN
         IF parsed.raised
         THEN Returned(PyDict([raw_response |-> PyStr(outcome.text),
                               provider |-> PyStr(<<"Google Gemini 2.0 Flash">>)]))
         ELSE Returned(parsed.value)

analyze_with_gemini(outcome) ==
    IF outcome.kind = "raise"
    THEN Returned(PyDict([error |-> PyStr(outcome.msg),
                          provider |-> PyStr(<<"Google Gemini 2.0 Flash">>)]))
    ELSE LET parsed == JsonLoads(outcome.text) IN
         IF parsed.raised
         THEN Returned(PyDict([raw_response |-> PyStr(outcome.text),
                               provider |-> PyStr(<<"Google Gemini 2.0 Flash">>)]))
         ELSE Returned(parsed.value)

\* The coroutine analyze_currency creates for provider p.
AdapterCall(p, outcome) ==
    IF p = "openai" THEN analyze_with_openai(outcome) ELSE analyze_with_gemini(outcome)

(***************************************************************************)
(* The combiner.                                                           *)
(***************************************************************************)
NoConsensus == [k \in {} |-> TRUE]

\* CompareCounts with the two branches of the length test exchanged.
CompareCounts_Swapped(openai_currencies, gemini_currencies) ==
    LET lo == PyLen(openai_currencies)
        lg == PyLen(gemini_currencies)
    IN IF lo.raised THEN lo
       ELSE IF lg.raised THEN lg
       ELSE IF lo.value # lg.value
            THEN Returned([consensus |-> [currency_count_match |-> TRUE],
                           discrepancies |-> <<>>])
            ELSE Returned([consensus |-> [k \in {} |-> TRUE],
                           discrepancies |-> <<"Different number of currencies detected">>])

\* CompareCounts comparing the first list's length with itself.
CompareCounts_SelfCompare(openai_currencies, gemini_currencies) ==
    LET lo == PyLen(openai_currencies)
        lg == PyLen(gemini_currencies)
    IN IF lo.raised THEN lo
       ELSE IF lg.raised THEN lg
       ELSE IF lo.value = lo.value
            THEN Returned([consensus |-> [currency_count_match |-> TRUE],
                           discrepancies |-> <<>>])
            ELSE Returned([consensus |-> [k \in {} |-> TRUE],
                           discrepancies |-> <<"Different number of currencies detected">>])

\* The body of `if openai_currencies and gemini_currencies:`.
CompareCounts(openai_currencies, gemini_currencies) ==
    LET lo == PyLen(openai_currencies)
        lg == PyLen(gemini_currencies)
    IN IF lo.raised THEN lo
       ELSE IF lg.raised THEN lg
       ELSE IF lo.value = lg.value
            THEN Returned([consensus |-> [currency_count_match |-> TRUE],
                           discrepancies |-> <<>>])
            ELSE Returned([consensus |-> NoConsensus,
                           discrepancies |-> <<"Different number of currencies detected">>])

\* combine_ai_results comparing the counts without the test that both lists
\* are non-empty.
combine_ai_results_NoGuard(openai_result, gemini_result) ==
    LET oc == PyGet(openai_result, "currencies_detected", PyList(<<>>))
        gc == PyGet(gemini_result, "currencies_detected", PyList(<<>>))
    IN IF oc.raised THEN oc
       ELSE IF gc.raised THEN gc
       ELSE LET cmp == CompareCounts(oc.value, gc.value)
            IN IF cmp.raised THEN cmp
               ELSE Returned([comparison |-> "dual_ai_analysis",
                              openai_summary |-> openai_result,
                              gemini_summary |-> gemini_result,
                              consensus |-> cmp.value.consensus,
                              discrepancies |-> cmp.value.discrepancies])

combine_ai_results(openai_result, gemini_result) ==
    LET oc == PyGet(openai_result, "currencies_detected", PyList(<<>>))
        gc == PyGet(gemini_result, "currencies_detected", PyList(<<>>))
    IN IF oc.raised THEN oc
       ELSE IF gc.raised THEN gc
       ELSE LET cmp == IF Truthy(oc.value) /\ Truthy(gc.value)
                       THEN CompareCounts(oc.value, gc.value)
                       ELSE Returned([consensus |-> NoConsensus, discrepancies |-> <<>>])
            IN IF cmp.raised THEN cmp
               ELSE Returned([comparison |-> "dual_ai_analysis",
                              openai_summary |-> openai_result,
                              gemini_summary |-> gemini_result,
                              consensus |-> cmp.value.consensus,
                              discrepancies |-> cmp.value.discrepancies])

(***************************************************************************)
(* analyze_currency.                                                       *)
(***************************************************************************)
Users == {"alice", "bob"}

\* file.content_type: a str, or None when the part declares none.
ContentTypes == {PyStr(<<"image/", "png">>), PyStr(<<"text/", "plain">>), PyNone}

NoRequest == [kind |-> "none"]
NoResponse == [status |-> 0]
NoGet == [kind |-> "none"]
NotStarted == [status |-> "none"]
Awaiting == [status |-> "awaiting"]

\* v.startswith(prefix): only a str has the method.
StartsWith(v, prefix) ==
    IF v.tag = "str"
    THEN Returned(v.s # <<>> /\ v.s[1] = prefix)
    ELSE Raised("AttributeError: '" \o TypeName(v) \o "' object has no attribute 'startswith'")

\* ValidateUpload without the test of the declared type.
ValidateUpload_NoTest(content_type) == Returned(TRUE)

\* The file type validation: passes, or raises.
ValidateUpload(content_type) ==
    LET image == StartsWith(content_type, "image/") IN
    IF image.raised THEN image
    ELSE IF ~image.value THEN Raised("400: File must be an image")
    ELSE Returned(TRUE)

\* ExceptHandler returning the error as an ordinary body instead of raising.
ExceptHandler_Returns(exc) == [status |-> 200, detail |-> exc]

\* `except Exception as e: raise HTTPException(status_code=500, detail=str(e))`
\* around the whole handler body.
ExceptHandler(exc) == [status |-> 500, detail |-> exc]

\* asyncio.gather(openai_task, gemini_task) resumes its awaiter when every
\* task has returned, or as soon as one has raised.
GatherReady(t) ==
    \/ \E p \in Providers : t[p].status = "raised"
    \/ \A p \in Providers : t[p].status = "returned"

\* GatherResult handing the results out in the order the tasks completed.
GatherResult_CompletionOrder(t, completed) ==
    IF \E p \in Providers : t[p].status = "raised"
    THEN LET first == CHOOSE i \in 1..Len(completed) :
                          /\ t[completed[i]].status = "raised"
                          /\ \A j \in 1..(i - 1) : t[completed[j]].status # "raised"
         IN Raised(t[completed[first]].exc)
    ELSE Returned(<<t[completed[1]].result, t[completed[2]].result>>)

\* What the await evaluates to: the results in the order of the arguments,
\* or the first exception raised.
GatherResult(t, completed) ==
    IF \E p \in Providers : t[p].status = "raised"
    THEN LET first == CHOOSE i \in 1..Len(completed) :
                          /\ t[completed[i]].status = "raised"
                          /\ \A j \in 1..(i - 1) : t[completed[j]].status # "raised"
         IN Raised(t[completed[first]].exc)
    ELSE Returned(<<t["openai"].result, t["gemini"].result>>)

\* analysis_doc as the handler builds it.
AnalysisDoc(id, username, openai_result, gemini_result, combined_analysis, now, filename) ==
    [id |-> id,
     user_id |-> username,
     openai_result |-> openai_result,
     gemini_result |-> gemini_result,
     combined_analysis |-> combined_analysis,
     timestamp |-> now,
     filename |-> filename]

\* insert_one: the collection with the document added under a fresh _id.
InsertOne(coll, doc) ==
    Append(coll, [k \in DOMAIN doc \cup {"_id"} |->
                      IF k = "_id" THEN Len(coll) + 1 ELSE doc[k]])

\* The handler's return value.
AnalyzeResponse(doc) ==
    [status |-> 200,
     body |-> [analysis_id |-> doc.id,
               openai_result |-> doc.openai_result,
               gemini_result |-> doc.gemini_result,
               combined_analysis |-> doc.combined_analysis,
               timestamp |-> doc.timestamp]]

\* An upload arrives: the handler validates it, reads it, creates the two
\* adapter coroutines and awaits asyncio.gather on them.
ReceiveUpload(u, ct) ==
    /\ pc = "idle"
    /\ uploads < MaxUploads
    /\ uploads' = uploads + 1
    /\ request' = [user |-> u, content_type |-> ct, filename |-> "note.png"]
    /\ order' = <<>>
    /\ lastGet' = NoGet
    /\ LET valid == ValidateUpload(ct) IN
       IF valid.raised
       THEN /\ pc' = "done"
            /\ response' = ExceptHandler(valid.exc)
            /\ task' = [p \in Providers |-> NotStarted]
       ELSE /\ pc' = "gather"
            /\ response' = NoResponse
            /\ task' = [p \in Providers |-> Awaiting]
    /\ UNCHANGED <<store, clock>>

\* The provider call of adapter p ends, by a text or by an exception, and the
\* adapter coroutine runs to its end.
AdapterCompletes(p) ==
    /\ pc = "gather"
    /\ task[p].status = "awaiting"
    /\ \E o \in ProviderOutcomes(p) :
          LET r == AdapterCall(p, o) IN
          task' = [task EXCEPT ![p] =
                      IF r.raised
                      THEN [status |-> "raised", outcome |-> o, exc |-> r.exc]
                      ELSE [status |-> "returned", outcome |-> o, result |-> r.value]]
    /\ order' = Append(order, p)
    /\ UNCHANGED <<pc, request, store, response, uploads, clock, lastGet>>

\* The await on asyncio.gather resumes and the handler runs to its end:
\* combine, build the document, insert it, respond.  insert_ok is whether
\* the store accepts the insert.
GatherResumes(insert_ok) ==
    /\ pc = "gather"
    /\ GatherReady(task)
    /\ pc' = "done"
    /\ clock' = clock + 1
    /\ LET gathered == GatherResult(task, order) IN
       IF gathered.raised
       THEN /\ response' = ExceptHandler(gathered.exc)
            /\ store' = store
       ELSE LET openai_result == gathered.value[1]
                gemini_result == gathered.value[2]
                combined == combine_ai_results(openai_result, gemini_result)
            IN IF combined.raised
               THEN /\ response' = ExceptHandler(combined.exc)
                    /\ store' = store
               ELSE LET doc == AnalysisDoc(uploads, request.user, openai_result,
                                           gemini_result, combined.value, clock,
                                           request.filename)
                    IN IF insert_ok
                       THEN /\ store' = InsertOne(store, doc)
                            /\ response' = AnalyzeResponse(doc)
                       ELSE /\ store' = store
                            /\ response' = ExceptHandler("ServerSelectionTimeoutError")
    /\ UNCHANGED <<request, task, order, uploads, lastGet>>

\* The response goes out and the handler's frame, with its locals, is gone.
SendResponse ==
    /\ pc = "done"
    /\ pc' = "idle"
    /\ request' = NoRequest
    /\ task' = [p \in Providers |-> NotStarted]
    /\ order' = <<>>
    /\ response' = NoResponse
    /\ UNCHANGED <<store, uploads, clock, lastGet>>

(***************************************************************************)
(* get_analysis.                                                           *)
(***************************************************************************)
NoDoc == [found |-> FALSE]

\* FindOne filtering by id alone.
FindOne_AnyOwner(coll, analysis_id, username) ==
    LET hits == {i \in 1..Len(coll) : coll[i].id = analysis_id}
    IN IF hits = {} THEN NoDoc
       ELSE [found |-> TRUE,
             doc |-> coll[CHOOSE i \in hits : \A j \in hits : i <= j]]

\* find_one({"id": analysis_id, "user_id": username}): the first match.
FindOne(coll, analysis_id, username) ==
    LET hits == {i \in 1..Len(coll) :
                    coll[i].id = analysis_id /\ coll[i].user_id = username}
    IN IF hits = {} THEN NoDoc
       ELSE [found |-> TRUE,
             doc |-> coll[CHOOSE i \in hits : \A j \in hits : i <= j]]

get_analysis(coll, analysis_id, username) ==
    LET analysis == FindOne(coll, analysis_id, username) IN
    IF ~analysis.found
    THEN [status |-> 404, detail |-> "Analysis not found"]
    ELSE [status |-> 200,
          body |-> [k \in DOMAIN analysis.doc \ {"_id"} |-> analysis.doc[k]]]

\* The ids a caller asks for: those handed out, and one never handed out.
LookupIds == 1..(MaxUploads + 1)

\* A lookup.  The handler has no await, so it is one step; analyze_currency
\* touches the collection in its last step only, so the lookups between two
\* uploads see every collection a lookup can see.
GetAnalysis(u, id) ==
    /\ pc = "idle"
    /\ lastGet' = [kind |-> "get", user |-> u, id |-> id,
                   reply |-> get_analysis(store, id, u)]
    /\ UNCHANGED <<pc, request, task, order, store, response, uploads, clock>>

(***************************************************************************)
(* get_user_analyses.                                                      *)
(***************************************************************************)
\* .limit(10)
Limit == 10

\* find({"user_id": username}): the documents the cursor ranges over, by
\* their place in the collection.
Find(coll, username) == {i \in 1..Len(coll) : coll[i].user_id = username}

RECURSIVE SortByTimestamp_Ascending(_, _, _)
\* SortByTimestamp with the direction 1 instead of -1.
SortByTimestamp_Ascending(coll, hits, tie) ==
    IF hits = {} THEN <<>>
    ELSE LET bottom == {i \in hits : \A j \in hits : coll[i].timestamp <= coll[j].timestamp}
             pick == IF tie = "natural"
                     THEN CHOOSE i \in bottom : \A j \in bottom : i <= j
                     ELSE CHOOSE i \in bottom : \A j \in bottom : i >= j
         IN <<pick>> \o SortByTimestamp_Ascending(coll, hits \ {pick}, tie)

RECURSIVE SortByTimestamp(_, _, _)
\* .sort("timestamp", -1): the documents of hits, latest timestamp first.
\* The order among equal timestamps is the server's choice: tie is
\* "natural" for insertion order, "reverse" for its opposite.
SortByTimestamp(coll, hits, tie) ==
    IF hits = {} THEN <<>>
    ELSE LET top == {i \in hits : \A j \in hits : coll[i].timestamp >= coll[j].timestamp}
             pick == IF tie = "natural"
                     THEN CHOOSE i \in top : \A j \in top : i <= j
                     ELSE CHOOSE i \in top : \A j \in top : i >= j
         IN <<pick>> \o SortByTimestamp(coll, hits \ {pick}, tie)

\* The first n elements of a cursor.
Take(seq, n) == SubSeq(seq, 1, IF Len(seq) < n THEN Len(seq) ELSE n)

get_user_analyses(coll, username, tie) ==
    LET cursor == Take(SortByTimestamp(coll, Find(coll, username), tie), Limit)
    IN [status |-> 200,
        body |-> [analyses |->
                     [j \in 1..Len(cursor) |->
                         [k \in DOMAIN coll[cursor[j]] \ {"_id"} |-> coll[cursor[j]][k]]]]]

\* A listing; like the lookup, one step between two uploads.
GetUserAnalyses(u) ==
    /\ pc = "idle"
    /\ \E tie \in {"natural", "reverse"} :
          lastGet' = [kind |-> "list", user |-> u,
                      reply |-> get_user_analyses(store, u, tie)]
    /\ UNCHANGED <<pc, request, task, order, store, response, uploads, clock>>

(***************************************************************************)
(* The specification.                                                      *)
(***************************************************************************)
Init ==
    /\ pc = "idle"
    /\ request = NoRequest
    /\ task = [p \in Providers |-> NotStarted]
    /\ order = <<>>
    /\ store = <<>>
    /\ response = NoResponse
    /\ uploads = 0
    /\ clock = 0
    /\ lastGet = NoGet

Next ==
    \/ \E u \in Users, ct \in ContentTypes : ReceiveUpload(u, ct)
    \/ \E p \in Providers : AdapterCompletes(p)
    \/ \E insert_ok \in BOOLEAN : GatherResumes(insert_ok)
    \/ SendResponse
    \/ \E u \in Users, id \in LookupIds : GetAnalysis(u, id)
    \/ \E u \in Users : GetUserAnalyses(u)

Spec == Init /\ [][Next]_vars

(***************************************************************************)
(* SpecList: the listing over a collection that earlier analyses have      *)
(* filled.  A behaviour begins with up to MaxRecords records, written by   *)
(* analyses whose provider calls both failed, and goes on with uploads of  *)
(* the same kind and with listings.  The owners and the clock readings of  *)
(* the records follow small periodic patterns: every m-th record is bob's, *)
(* the n-th reading is (s * n) + ((a * n) % 3): strictly rising readings  *)
(* (s = 1, a = 0), equal ones (s = 0, a = 0), and readings that repeat and *)
(* fall, as when the wall clock is set back.                               *)
(***************************************************************************)
ConnectionError == [kind |-> "raise", msg |-> <<"Connection error">>]

\* The record of the n-th earlier analysis.
SeedDoc(n, m, s, a) ==
    LET openai_result == analyze_with_openai(ConnectionError).value
        gemini_result == analyze_with_gemini(ConnectionError).value
    IN AnalysisDoc(MaxUploads + n,
                   IF n % m = 0 THEN "bob" ELSE "alice",
                   openai_result, gemini_result,
                   combine_ai_results(openai_result, gemini_result).value,
                   (s * n) + ((a * n) % 3),
                   "note.png")

RECURSIVE SeedStore(_, _, _, _)
\* The collection after n earlier analyses.
SeedStore(n, m, s, a) ==
    IF n = 0 THEN <<>>
    ELSE InsertOne(SeedStore(n - 1, m, s, a), SeedDoc(n, m, s, a))

InitList ==
    /\ pc = "idle"
    /\ request = NoRequest
    /\ task = [p \in Providers |-> NotStarted]
    /\ order = <<>>
    /\ response = NoResponse
    /\ uploads = 0
    /\ lastGet = NoGet
    /\ \E n \in 0..MaxRecords, m \in 1..3, s \in 0..1, a \in 0..2 :
          /\ store = SeedStore(n, m, s, a)
          /\ clock \in {0, (s * n) + 3}

\* An image upload.
ListUpload(u) == ReceiveUpload(u, PyStr(<<"image/", "png">>))

\* The provider call of adapter p fails.
ListAdapterFails(p) == AdapterCompletes(p) /\ task'[p].outcome = ConnectionError

\* The handler goes on after the gather and the store takes the insert.
ListInsert == GatherResumes(TRUE)

NextList ==
    \/ \E u \in Users : ListUpload(u)
    \/ \E p \in Providers : ListAdapterFails(p)
    \/ ListInsert
    \/ SendResponse
    \/ \E u \in Users : GetUserAnalyses(u)

SpecList == InitList /\ [][NextList]_vars

(***************************************************************************)
(* Vocabulary of the properties.                                           *)
(***************************************************************************)
\* The adapter call of p has ended.
Completed(p) == task[p].status \in {"returned", "raised"}

\* The texts of ResponseTexts that are no JSON document.
NotJsonTexts == {ProseText, TruncatedText}

\* The results the adapters build themselves.
FailedResult(p, msg) ==
    PyDict([error |-> PyStr(msg), provider |-> PyStr(<<ProviderName(p)>>)])
RawFallbackResult(p, text) ==
    PyDict([raw_response |-> PyStr(text), provider |-> PyStr(<<ProviderName(p)>>)])

\* The variants of a ProviderResult a value populates.
VariantsOf(r) ==
    IF r.tag # "dict" THEN {}
    ELSE {k \in {"currencies_detected", "raw_response", "error"} : k \in DOMAIN r.fields}

\* The upload being handled declares an image.
ImageUpload ==
    /\ request # NoRequest
    /\ request.content_type.tag = "str"
    /\ request.content_type.s # <<>>
    /\ request.content_type.s[1] = "image/"

\* analyze_currency has ended because the store refused the insert.
InsertFailed ==
    /\ pc = "done"
    /\ response = [status |-> 500, detail |-> "ServerSelectionTimeoutError"]

\* analyze_currency has ended and the store did not refuse the insert.
Answered == pc = "done" /\ ~InsertFailed

\* The records of the store with the id of the upload being handled.
RecordsOfUpload == {i \in 1..Len(store) : store[i].id = uploads}

(***************************************************************************)
(* C1.  Each adapter always returns a value and never raises: Failed       *)
(* {error, provider} when the provider call raises, RawFallback            *)
(* {raw_response, provider} when the text is no JSON, the parsed value     *)
(* otherwise.                                                              *)
(***************************************************************************)
C1_AdapterNeverRaises ==
    \A p \in Providers :
        Completed(p) =>
            /\ task[p].status = "returned"
            /\ LET o == task[p].outcome
                   r == task[p].result
               IN CASE o.kind = "raise" -> r = FailedResult(p, o.msg)
                    [] o.kind = "text" /\ o.text \in NotJsonTexts ->
                           r = RawFallbackResult(p, o.text)
                    [] OTHER -> /\ ~JsonLoads(o.text).raised
                                /\ r = JsonLoads(o.text).value

\* One call has raised and the other has answered in prose.
C1_Witness ==
    /\ task["openai"].status = "returned"
    /\ task["openai"].outcome.kind = "raise"
    /\ task["gemini"].status = "returned"
    /\ task["gemini"].outcome = [kind |-> "text", text |-> ProseText]
    /\ task["gemini"].result.fields.raw_response = PyStr(ProseText)

(***************************************************************************)
(* C2.  For every image upload and every outcome of the two provider       *)
(* calls, what analyze returns holds one result per provider, each         *)
(* populating exactly one of the variants Structured (currencies_detected),*)
(* RawFallback (raw_response), Failed (error), and carrying a provider     *)
(* field that names its provider.                                          *)
(***************************************************************************)
C2_OneTaggedResultPerProvider ==
    (Answered /\ ImageUpload /\ response.status = 200) =>
        \A p \in Providers :
            LET r == IF p = "openai" THEN response.body.openai_result
                     ELSE response.body.gemini_result
            IN /\ r.tag = "dict"
               /\ Cardinality(VariantsOf(r)) = 1
               /\ "provider" \in DOMAIN r.fields
               /\ r.fields.provider = PyStr(<<ProviderName(p)>>)

(***************************************************************************)
(* C3.  Whatever text either provider returns, analyze_currency on an      *)
(* image upload completes successfully and produces a CombinedAnalysis.    *)
(***************************************************************************)
C3_AnyTextIsTolerated ==
    (Answered /\ ImageUpload) =>
        /\ response.status = 200
        /\ response.body.combined_analysis.comparison = "dual_ai_analysis"

(***************************************************************************)
(* C4.  An upload whose declared content type is no image is rejected      *)
(* with status 400, which differs from the status of a failed insert.      *)
(***************************************************************************)
C4_NonImageIs400 ==
    (pc = "done" /\ request.content_type.tag = "str" /\ ~ImageUpload) =>
        /\ response.status = 400
        /\ response.status # ExceptHandler("ServerSelectionTimeoutError").status

(***************************************************************************)
(* C5.  When both provider calls fail (and the store takes the insert),    *)
(* analyze_currency succeeds: it returns both Failed results and a         *)
(* CombinedAnalysis with empty consensus and no discrepancies, and one     *)
(* record of the request is in the store.                                  *)
(***************************************************************************)
BothCallsFailed ==
    \A p \in Providers : Completed(p) /\ task[p].outcome.kind = "raise"

C5_BothFailedStillSucceeds ==
    (Answered /\ BothCallsFailed) =>
        /\ response.status = 200
        /\ response.body.openai_result = FailedResult("openai", task["openai"].outcome.msg)
        /\ response.body.gemini_result = FailedResult("gemini", task["gemini"].outcome.msg)
        /\ response.body.combined_analysis.consensus = NoConsensus
        /\ response.body.combined_analysis.discrepancies = <<>>
        /\ Cardinality(RecordsOfUpload) = 1
        /\ \A i \in RecordsOfUpload :
              /\ store[i].openai_result = response.body.openai_result
              /\ store[i].gemini_result = response.body.gemini_result
              /\ store[i].combined_analysis = response.body.combined_analysis

C5_Witness ==
    /\ Answered
    /\ BothCallsFailed
    /\ response.status = 200
    /\ Len(store) = 1

(***************************************************************************)
(* C6, C7: the combiner on two Structured results.                         *)
(***************************************************************************)
\* The detection list of a Structured result.
HasDetectionList(r) ==
    /\ r.tag = "dict"
    /\ "currencies_detected" \in DOMAIN r.fields
    /\ r.fields.currencies_detected.tag = "list"

DetectionCount(r) == Len(r.fields.currencies_detected.items)

\* analyze_currency has ended on two Structured results.
AnsweredStructured ==
    /\ Answered
    /\ \A p \in Providers : task[p].status = "returned" /\ HasDetectionList(task[p].result)

CountOf(p) == DetectionCount(task[p].result)

\* C6 as claimed: for every pair of Structured results whose detection lists
\* have equal length, the combiner returns consensus.currency_count_match =
\* true and no discrepancies.
C6_EqualLengthsMatch ==
    (AnsweredStructured /\ CountOf("openai") = CountOf("gemini")) =>
        /\ response.status = 200
        /\ "currency_count_match" \in DOMAIN response.body.combined_analysis.consensus
        /\ response.body.combined_analysis.consensus.currency_count_match = TRUE
        /\ response.body.combined_analysis.discrepancies = <<>>

\* C6 as amended: for every pair of Structured results whose detection lists
\* are non-empty and have equal length, the combiner returns
\* consensus.currency_count_match = true and no discrepancies.
C6_EqualNonEmptyLengthsMatch ==
    (/\ AnsweredStructured
     /\ CountOf("openai") = CountOf("gemini")
     /\ CountOf("openai") > 0) =>
        /\ response.status = 200
        /\ response.body.combined_analysis.consensus = [currency_count_match |-> TRUE]
        /\ response.body.combined_analysis.discrepancies = <<>>

C6_Witness ==
    /\ AnsweredStructured
    /\ CountOf("openai") = MaxDetections
    /\ CountOf("gemini") = MaxDetections
    /\ response.status = 200
    /\ response.body.combined_analysis.consensus = [currency_count_match |-> TRUE]

\* C7 as claimed: for every pair of Structured results whose detection lists
\* differ in length, the combiner returns exactly the one discrepancy
\* "Different number of currencies detected" and a consensus without
\* currency_count_match.
C7_DifferentLengthsDiscrepancy ==
    (AnsweredStructured /\ CountOf("openai") # CountOf("gemini")) =>
        /\ response.status = 200
        /\ response.body.combined_analysis.discrepancies =
               <<"Different number of currencies detected">>
        /\ "currency_count_match" \notin DOMAIN response.body.combined_analysis.consensus

\* C7 as amended: for every pair of Structured results whose detection lists
\* are both non-empty and differ in length, the combiner returns exactly the
\* one discrepancy "Different number of currencies detected" and a consensus
\* without currency_count_match.
C7_DifferentNonEmptyLengthsDiscrepancy ==
    (/\ AnsweredStructured
     /\ CountOf("openai") # CountOf("gemini")
     /\ CountOf("openai") > 0
     /\ CountOf("gemini") > 0) =>
        /\ response.status = 200
        /\ response.body.combined_analysis.discrepancies =
               <<"Different number of currencies detected">>
        /\ "currency_count_match" \notin DOMAIN response.body.combined_analysis.consensus

C7_Witness ==
    /\ AnsweredStructured
    /\ CountOf("openai") = 1
    /\ CountOf("gemini") = 2
    /\ response.status = 200
    /\ Len(response.body.combined_analysis.discrepancies) = 1

(***************************************************************************)
(* C8.  The fan-out is a join barrier: the handler goes on past the gather *)
(* (combiner, insert, response) only when both adapter calls have          *)
(* completed, and the completion of one call, failed or not, leaves the    *)
(* other call in flight and the handler waiting for it.                    *)
(***************************************************************************)
C8_JoinBarrier ==
    [][/\ (pc = "gather" /\ pc' = "done") =>
              \A p \in Providers : task[p].status = "returned"
       /\ \A p, q \in Providers :
              (p # q /\ task'[p] # task[p] /\ task[q].status = "awaiting") =>
                  /\ task'[q] = task[q]
                  /\ pc' = "gather"
                  /\ response' = NoResponse
                  /\ store' = store]_vars

\* The OpenAI call failed first; the Gemini call still completed and its
\* answer is in the response.
C8_Witness ==
    /\ Answered
    /\ order = <<"openai", "gemini">>
    /\ task["openai"].outcome.kind = "raise"
    /\ task["gemini"].outcome = [kind |-> "text", text |-> StructuredText("gemini", 1)]
    /\ response.status = 200
    /\ response.body.gemini_result = JsonLoads(StructuredText("gemini", 1)).value

(***************************************************************************)
(* C9.  Whatever the completion order, what is reported and stored as      *)
(* openai_result is what the OpenAI adapter returned, and what is reported *)
(* and stored as gemini_result is what the Gemini adapter returned.        *)
(***************************************************************************)
C9_PairedByProvider ==
    (Answered /\ response.status = 200) =>
        /\ response.body.openai_result = task["openai"].result
        /\ response.body.gemini_result = task["gemini"].result
        /\ RecordsOfUpload # {}
        /\ \A i \in RecordsOfUpload :
              /\ store[i].openai_result = task["openai"].result
              /\ store[i].gemini_result = task["gemini"].result

\* The Gemini call completed first, and the two results differ.
C9_Witness ==
    /\ Answered
    /\ response.status = 200
    /\ order = <<"gemini", "openai">>
    /\ task["openai"].result # task["gemini"].result
    /\ response.body.openai_result = task["openai"].result

(***************************************************************************)
(* C10.  get_analysis(id) called by u returns a record only if the store   *)
(* holds a record with that id owned by u, and then that record; otherwise *)
(* the reply is 404 without content.  A record analyze wrote for u is      *)
(* retrievable by u, and by nobody else, under the returned analysis_id.   *)
(***************************************************************************)
OwnedBy(u, id) == {i \in 1..Len(store) : store[i].id = id /\ store[i].user_id = u}

C10_OwnerOnlyLookup ==
    /\ lastGet.kind = "get" =>
          IF OwnedBy(lastGet.user, lastGet.id) = {}
          THEN lastGet.reply = [status |-> 404, detail |-> "Analysis not found"]
          ELSE /\ lastGet.reply.status = 200
               /\ lastGet.reply.body.id = lastGet.id
               /\ lastGet.reply.body.user_id = lastGet.user
               /\ \E i \in OwnedBy(lastGet.user, lastGet.id) :
                     \A k \in DOMAIN lastGet.reply.body :
                         lastGet.reply.body[k] = store[i][k]
    /\ (Answered /\ response.status = 200) =>
          \A u \in Users :
              LET reply == get_analysis(store, response.body.analysis_id, u) IN
              IF u = request.user
              THEN /\ reply.status = 200
                   /\ reply.body.openai_result = response.body.openai_result
                   /\ reply.body.gemini_result = response.body.gemini_result
                   /\ reply.body.combined_analysis = response.body.combined_analysis
              ELSE reply.status = 404 /\ "body" \notin DOMAIN reply

\* bob asks for the record alice's upload wrote, and gets 404.
C10_Witness ==
    /\ lastGet.kind = "get"
    /\ lastGet.user = "bob"
    /\ OwnedBy("alice", lastGet.id) # {}
    /\ lastGet.reply.status = 404

(***************************************************************************)
(* C11.  An upload whose declared content type is no image is rejected     *)
(* before any provider call: neither adapter is invoked and no analysis    *)
(* record is inserted.                                                     *)
(***************************************************************************)
C11_RejectedBeforeProviderCalls ==
    (request # NoRequest /\ ~ImageUpload) =>
        /\ pc = "done"
        /\ response.status \notin {NoResponse.status, 200}
        /\ \A p \in Providers : task[p] = NotStarted
        /\ order = <<>>
        /\ RecordsOfUpload = {}
        /\ Len(store) < uploads

\* A text/plain upload has been rejected.
C11_Witness ==
    /\ pc = "done"
    /\ request.content_type = PyStr(<<"text/", "plain">>)
    /\ response.status = 500
    /\ \A p \in Providers : task[p] = NotStarted
    /\ store = <<>>

(***************************************************************************)
(* C12.  When the store insert fails, analyze_currency reports the whole   *)
(* operation as failed (an error response, not the analysis result), even  *)
(* when both provider calls returned successfully, and the store holds no  *)
(* record of the request.                                                  *)
(***************************************************************************)
\* The handler has ended on the exception of insert_one.
InsertRaised ==
    /\ pc = "done"
    /\ "detail" \in DOMAIN response
    /\ response.detail = "ServerSelectionTimeoutError"

C12_InsertFailureFailsRequest ==
    InsertRaised =>
        /\ response.status = 500
        /\ "body" \notin DOMAIN response
        /\ RecordsOfUpload = {}
        /\ Len(store) < uploads
        /\ \A p \in Providers : task[p].status = "returned"

\* Both providers answered as prompted and the insert failed.
C12_Witness ==
    /\ InsertRaised
    /\ \A p \in Providers :
          task[p].outcome = [kind |-> "text", text |-> StructuredText(p, 1)]
    /\ response.status = 500
    /\ store = <<>>

(***************************************************************************)
(* C13.  After any sequence of analyze calls by any users,                 *)
(* get_user_analyses called by u returns only records owned by u, at most  *)
(* 10 of them, namely those of u with the latest creation timestamps,      *)
(* ordered by creation timestamp descending.                               *)
(***************************************************************************)
\* The records of the store the listing returned, by their ids.
Listed == {i \in 1..Len(store) :
              \E j \in 1..Len(lastGet.reply.body.analyses) :
                  lastGet.reply.body.analyses[j].id = store[i].id}

C13_LatestTenOfCaller ==
    lastGet.kind = "list" =>
        LET analyses == lastGet.reply.body.analyses
            mine == {i \in 1..Len(store) : store[i].user_id = lastGet.user}
        IN /\ lastGet.reply.status = 200
           /\ Len(analyses) <= Limit
           /\ Len(analyses) = (IF Cardinality(mine) < Limit THEN Cardinality(mine) ELSE Limit)
           /\ \A j \in 1..Len(analyses) :
                 /\ analyses[j].user_id = lastGet.user
                 /\ \E i \in mine : \A k \in DOMAIN analyses[j] : analyses[j][k] = store[i][k]
           /\ \A j, k \in 1..Len(analyses) : j # k => analyses[j].id # analyses[k].id
           /\ \A j, k \in 1..Len(analyses) :
                 j < k => analyses[j].timestamp >= analyses[k].timestamp
           /\ \A i \in mine \ Listed :
                 \A j \in 1..Len(analyses) : analyses[j].timestamp >= store[i].timestamp

\* alice has more than 10 records among records of bob, written at clock
\* readings that rise and fall, and her listing holds 10.
C13_Witness ==
    /\ lastGet.kind = "list"
    /\ lastGet.user = "alice"
    /\ Cardinality({i \in 1..Len(store) : store[i].user_id = "alice"}) > Limit
    /\ \E i \in 1..Len(store) : store[i].user_id = "bob"
    /\ \E i, j \in 1..Len(store) : i < j /\ store[i].timestamp > store[j].timestamp
    /\ \E i, j \in 1..Len(store) : i < j /\ store[i].timestamp < store[j].timestamp
    /\ Len(lastGet.reply.body.analyses) = Limit

(***************************************************************************)
(* C14.  If at least one of the two results passed to combine_ai_results   *)
(* is a RawFallback, a Failed result, or a result whose detection list is  *)
(* empty or absent, the CombinedAnalysis returned has consensus = {} and   *)
(* discrepancies = [], and carries both results unchanged as               *)
(* openai_summary and gemini_summary.                                      *)
(***************************************************************************)
\* r is a RawFallback, a Failed result, or an object whose detection list
\* is empty or absent.
NoDetections(r) ==
    /\ r.tag = "dict"
    /\ \/ "raw_response" \in DOMAIN r.fields
       \/ "error" \in DOMAIN r.fields
       \/ "currencies_detected" \notin DOMAIN r.fields
       \/ r.fields.currencies_detected = PyList(<<>>)

\* The handler has passed the two results to combine_ai_results.
Combined ==
    /\ pc = "done"
    /\ \A p \in Providers : task[p].status = "returned"

\* What the claim says of the CombinedAnalysis.
EmptyComparison(combined, openai_result, gemini_result) ==
    /\ ~combined.raised
    /\ combined.value.consensus = NoConsensus
    /\ combined.value.discrepancies = <<>>
    /\ combined.value.openai_summary = openai_result
    /\ combined.value.gemini_summary = gemini_result

C14_NoDetectionsNoComparison ==
    (Combined /\ \E p \in Providers : NoDetections(task[p].result)) =>
        /\ EmptyComparison(combine_ai_results(task["openai"].result, task["gemini"].result),
                           task["openai"].result, task["gemini"].result)
        /\ ~InsertRaised =>
              /\ response.status = 200
              /\ response.body.combined_analysis.consensus = NoConsensus
              /\ response.body.combined_analysis.discrepancies = <<>>

\* C14 where both results are JSON objects, which is where C3's defect does
\* not reach: there the claim holds.
C14_OnObjects ==
    (/\ Combined
     /\ \A p \in Providers : task[p].result.tag = "dict"
     /\ \E p \in Providers : NoDetections(task[p].result)) =>
        /\ EmptyComparison(combine_ai_results(task["openai"].result, task["gemini"].result),
                           task["openai"].result, task["gemini"].result)
        /\ ~InsertRaised =>
              /\ response.status = 200
              /\ response.body.combined_analysis.consensus = NoConsensus
              /\ response.body.combined_analysis.discrepancies = <<>>

====
